---- MODULE Spec2Model ----
(***************************************************************************)
(* A model of the flashx Engine (src/flashx.go): Setup, the backend        *)
(* selection of getURL, the connection counters, the blacklist and the     *)
(* rate limiter, and the two dispatch entry points Initiate and            *)
(* InitiateOverride run by concurrent requests.                            *)
(***************************************************************************)
EXTENDS Integers, Sequences, FiniteSets, TLC

(***************************************************************************)
(* Bounds of the model.                                                    *)
(***************************************************************************)
\* longest URLs list and longest RoundRobinWeights list a Setup is given
MaxURLs == 2
\* largest weight of a RoundRobinWeights entry (the smallest is 0)
MaxWeight == 2
\* number of Setup calls in one behaviour
MaxSetups == 2
\* number of dispatches (Initiate or InitiateOverride) in one behaviour
MaxDispatch == 3
\* number of direct calls of getURL in one behaviour: two full cycles of the
\* longest weighted list
MaxSelect == 2 * MaxURLs * MaxWeight
\* width of the cursor in the model; the code's currentIndex is an int64
Int64Bits == 5

\* the goroutines that serve requests concurrently
Requests == {1, 2}

(***************************************************************************)
(* Program constants.                                                      *)
(***************************************************************************)
Nil == 0
RoundRobin == 1
WeightedRoundRobin == 2
LeastConnections == 3
Strategies == {Nil, RoundRobin, WeightedRoundRobin, LeastConnections}
StatusForbidden == 403

(***************************************************************************)
(* Inputs.                                                                 *)
(***************************************************************************)
\* address strings url.Parse rejects (the one of TestEngine_Setup)
Malformed == {" http://foo.com"}
WellFormed == {"http://a"}
Addresses == WellFormed \cup Malformed
URLLists == UNION {[1..n -> Addresses] : n \in 0..MaxURLs}
WeightLists == UNION {[1..n -> 0..MaxWeight] : n \in 0..MaxURLs}
Rates == {0, 50}
\* what a caller configures before it calls Setup
Configs ==
    [URLs : URLLists, strategy : Strategies, weights : WeightLists,
     rate : Rates]

\* remote addresses of requests; PrefixPairs lists which is a proper prefix
\* of which
RemoteAddrs == {"10.0.0.5", "10.0.0.50", "192.168.1.7"}
PrefixPairs == {<<"10.0.0.5", "10.0.0.50">>}
BlacklistChoices == {<<>>, <<"10.0.0.5">>, <<"192.168.1.7", "10.0.0.50">>}

\* a *url.URL: the parsed address and the identity of the allocation (the
\* Setup call that parsed it and its position in URLs)
NoURL == [addr |-> "", gen |-> 0, pos |-> 0]
\* the routeURL a caller of InitiateOverride supplies
OverrideURLs == {[addr |-> "http://c", gen |-> 0, pos |-> 1]}

VARIABLES
    \* configuration fields of Engine
    URLs, LoadBalancingStrategy, RoundRobinWeights, BlacklistIPs,
    NumberOfRequestsPerSecond,
    \* private fields of Engine
    limiter, tokens, proxy, currentIndex, urls, weightedURLs,
    leastConnectionMap,
    \* the package-level mutex l
    locked,
    \* per request: position, entry point, locals and what the client and
    \* the backend saw
    pc, op, routeURL, remoteAddr, status, director, forwardedTo, outcome,
    net,
    \* history
    setupStatus, nSetups, nDispatch, selLog, crashed,
    \* a second Engine value of the same process
    peer,
    \* getURL run step by step: its local nextURLIndex per request, and the
    \* cursor values its calls observed
    nextURLIndex, drawLog

cfgVars == <<URLs, LoadBalancingStrategy, RoundRobinWeights, BlacklistIPs,
             NumberOfRequestsPerSecond>>
engVars == <<limiter, tokens, proxy, currentIndex, urls, weightedURLs,
             leastConnectionMap, locked>>
reqVars == <<pc, op, routeURL, remoteAddr, status, director, forwardedTo,
             outcome, net>>
histVars == <<setupStatus, nSetups, nDispatch, selLog, crashed>>
stepVars == <<nextURLIndex, drawLog>>
vars == <<cfgVars, engVars, reqVars, histVars, peer, stepVars>>

(***************************************************************************)
(* Helpers.                                                                *)
(***************************************************************************)
MaxInt64 == 2 ^ (Int64Bits - 1) - 1
MinInt64 == - (2 ^ (Int64Bits - 1))

\* atomic.AddInt64(&x, 1): two's-complement wrap-around
AddInt64(x) == IF x = MaxInt64 THEN MinInt64 ELSE x + 1

\* Go's % truncates toward zero: the sign follows the dividend
GoRem(a, n) == IF a >= 0 THEN a % n ELSE - ((- a) % n)

Repeat(x, n) == [j \in 1..n |-> x]

RECURSIVE SumSeq(_)
SumSeq(s) == IF s = <<>> THEN 0 ELSE Head(s) + SumSeq(Tail(s))

\* url.Parse
urlParse(s, gen, pos) ==
    IF s \in Malformed
    THEN [err |-> TRUE, url |-> NoURL]
    ELSE [err |-> FALSE, url |-> [addr |-> s, gen |-> gen, pos |-> pos]]

\* a map[*url.URL]int: nil, or a function from its keys
NilMap == [isNil |-> TRUE, m |-> <<>>]
MapGet(mp, k) == IF k \in DOMAIN mp.m THEN mp.m[k] ELSE 0
MapSet(mp, k, v) ==
    [isNil |-> FALSE,
     m |-> [x \in DOMAIN mp.m \cup {k} |-> IF x = k THEN v ELSE mp.m[x]]]

\* history of what one request did to the counters: per key, the sum of its
\* changes
Bump(f, k, d) ==
    [x \in DOMAIN f \cup {k} |->
        (IF x \in DOMAIN f THEN f[x] ELSE 0) + (IF x = k THEN d ELSE 0)]

(***************************************************************************)
(* validateURLs                                                            *)
(***************************************************************************)
\* the first loop: parse every address, stop at the first error
RECURSIVE parseAll(_, _, _)
parseAll(u, gen, i) ==
    IF i > Len(u) THEN [err |-> FALSE, parsed |-> <<>>]
    ELSE LET p == urlParse(u[i], gen, i) IN
         IF p.err THEN [err |-> TRUE, parsed |-> <<>>]
         ELSE LET rest == parseAll(u, gen, i + 1) IN
              [err |-> rest.err,
               parsed |-> IF rest.err THEN <<>> ELSE <<p.url>> \o rest.parsed]

\* expandWeights with the inner loop run once per url, whatever its weight
RECURSIVE expandWeightsOnce(_, _, _)
expandWeightsOnce(us, ws, i) ==
    IF i > Len(us) THEN [fault |-> FALSE, out |-> <<>>]
    ELSE IF i > Len(ws) THEN [fault |-> TRUE, out |-> <<>>]
    ELSE LET rest == expandWeightsOnce(us, ws, i + 1) IN
         [fault |-> rest.fault, out |-> <<us[i]>> \o rest.out]

\* expandWeights with the blocks laid out last backend first
RECURSIVE expandWeightsReversed(_, _, _)
expandWeightsReversed(us, ws, i) ==
    IF i > Len(us) THEN [fault |-> FALSE, out |-> <<>>]
    ELSE IF i > Len(ws) THEN [fault |-> TRUE, out |-> <<>>]
    ELSE LET rest == expandWeightsReversed(us, ws, i + 1) IN
         [fault |-> rest.fault, out |-> rest.out \o Repeat(us[i], ws[i])]

\* the second loop: weight copies of each url; RoundRobinWeights[index]
\* faults (index out of range) when the weights run out
RECURSIVE expandWeights(_, _, _)
expandWeights(us, ws, i) ==
    IF i > Len(us) THEN [fault |-> FALSE, out |-> <<>>]
    ELSE IF i > Len(ws) THEN [fault |-> TRUE, out |-> <<>>]
    ELSE LET rest == expandWeights(us, ws, i + 1) IN
         [fault |-> rest.fault, out |-> Repeat(us[i], ws[i]) \o rest.out]

\* result "ok" (nil), "err" (the parse error) or "fault" (a panic), with the
\* fields as validateURLs leaves them
validateURLs(u, w, gen, oldURLs, oldWeighted) ==
    LET p == parseAll(u, gen, 1) IN
    IF p.err
    THEN [result |-> "err", urls |-> oldURLs, weightedURLs |-> oldWeighted]
    ELSE IF Len(w) > 0
         THEN LET e == expandWeights(p.parsed, w, 1) IN
              [result |-> IF e.fault THEN "fault" ELSE "ok",
               urls |-> p.parsed, weightedURLs |-> e.out]
         ELSE [result |-> "ok", urls |-> p.parsed,
               weightedURLs |-> oldWeighted]

populateLeastConnectionsMap(us) ==
    [isNil |-> FALSE, m |-> [k \in {us[i] : i \in 1..Len(us)} |-> 0]]

(***************************************************************************)
(* Initial state: an Engine value whose Setup has not been called.  The    *)
(* caller has set BlacklistIPs; the other configuration fields are set     *)
(* with each call of Setup.                                                *)
(***************************************************************************)
Init ==
    /\ URLs = <<>>
    /\ LoadBalancingStrategy = Nil
    /\ RoundRobinWeights = <<>>
    /\ BlacklistIPs \in BlacklistChoices
    /\ NumberOfRequestsPerSecond = 0
    /\ limiter = "nil"
    /\ tokens = 0
    /\ proxy = 0
    /\ currentIndex = 0
    /\ urls = <<>>
    /\ weightedURLs = <<>>
    /\ leastConnectionMap = NilMap
    /\ locked = FALSE
    /\ pc = [r \in Requests |-> "idle"]
    /\ op = [r \in Requests |-> "none"]
    /\ routeURL = [r \in Requests |-> NoURL]
    /\ remoteAddr = [r \in Requests |-> ""]
    /\ status = [r \in Requests |-> 0]
    /\ director = [r \in Requests |-> NoURL]
    /\ forwardedTo = [r \in Requests |-> NoURL]
    /\ outcome = [r \in Requests |-> "none"]
    /\ net = [r \in Requests |-> <<>>]
    /\ setupStatus = "none"
    /\ nSetups = 0
    /\ nDispatch = 0
    /\ selLog = <<>>
    /\ crashed = FALSE
    /\ peer = [pc |-> "idle", holds |-> FALSE, count |-> 0]
    /\ nextURLIndex = [r \in Requests |-> 0]
    /\ drawLog = <<>>

(***************************************************************************)
(* Setup                                                                   *)
(***************************************************************************)
Setup(c) ==
    /\ ~crashed
    /\ LET v == validateURLs(c.URLs, c.weights, nSetups + 1, urls,
                             weightedURLs) IN
        /\ URLs' = c.URLs
        /\ LoadBalancingStrategy' = c.strategy
        /\ RoundRobinWeights' = c.weights
        /\ NumberOfRequestsPerSecond' = c.rate
        /\ currentIndex' = -1
        /\ limiter' = IF c.rate > 0 THEN "limited" ELSE "unlimited"
        /\ tokens' = IF c.rate > 0 THEN 1 ELSE 0
        /\ urls' = v.urls
        /\ weightedURLs' = v.weightedURLs
        /\ leastConnectionMap' =
               IF v.result = "ok" /\ c.strategy = LeastConnections
               THEN populateLeastConnectionsMap(v.urls)
               ELSE leastConnectionMap
        /\ setupStatus' = v.result
        \* a panic in Setup is not recovered: the process ends
        /\ crashed' = (v.result = "fault")
    /\ nSetups' = nSetups + 1
    /\ selLog' = <<>>
    /\ UNCHANGED <<peer, stepVars>>
    /\ UNCHANGED <<BlacklistIPs, proxy, locked, reqVars, nDispatch>>

\* the configuration fields as they stand
CurrentConfig ==
    [URLs |-> URLs, strategy |-> LoadBalancingStrategy,
     weights |-> RoundRobinWeights, rate |-> NumberOfRequestsPerSecond]

\* Setup called on an Engine for the first time, configured from C
FirstSetup(C) == nSetups = 0 /\ \E c \in C : Setup(c)

\* Setup called again, the strategy possibly changed and the rest of the
\* configuration as it was
SetupAgain ==
    /\ nSetups \in 1..(MaxSetups - 1)
    /\ \E s \in Strategies : Setup([CurrentConfig EXCEPT !.strategy = s])

\* Setup called with any configuration, fresh engine or not
SetupAny == nSetups < MaxSetups /\ \E c \in Configs : Setup(c)

(***************************************************************************)
(* getURL                                                                  *)
(***************************************************************************)
\* cursorPick with the cursor read one ahead
cursorPickOneAhead(list, idx) ==
    IF Len(list) = 0 THEN [fault |-> TRUE, url |-> NoURL]
    ELSE LET i == GoRem(idx + 1, Len(list)) IN
         IF i < 0 THEN [fault |-> TRUE, url |-> NoURL]
         ELSE [fault |-> FALSE, url |-> list[i + 1]]

\* the index expression of the two round-robin branches, with the faults of
\* the modulo (division by zero) and of the slice access (out of range)
cursorPick(list, idx) ==
    IF Len(list) = 0 THEN [fault |-> TRUE, url |-> NoURL]
    ELSE LET i == GoRem(idx, Len(list)) IN
         IF i < 0 THEN [fault |-> TRUE, url |-> NoURL]
         ELSE [fault |-> FALSE, url |-> list[i + 1]]

\* the two round-robin branches: the cursor is advanced atomically and its
\* new value indexes the list
roundRobinPick(list, cur) ==
    LET c == AddInt64(cur)
        p == cursorPick(list, c) IN
    [fault |-> p.fault, url |-> p.url, cursor |-> c, leak |-> FALSE]

\* the orders in which a range over a map with keys K can visit them
Orders(K) ==
    {o \in [1..Cardinality(K) -> K] : \A k \in K : \E i \in DOMAIN o : o[i] = k}

\* leastConnectionsScan that keeps the last key visited: the comparison is
\* made against the starting value, not against the running minimum
RECURSIVE leastConnectionsScanLast(_, _, _, _, _)
leastConnectionsScanLast(m, order, seen, least, leastURL) ==
    IF order = <<>> THEN leastURL
    ELSE LET k == Head(order) IN
         leastConnectionsScanLast(m, Tail(order), TRUE, m[k], k)

\* the loop of the least-connections branch over the keys in one order:
\* keep a key whose count is below the smallest seen so far.  The code
\* starts leastConnections at 9999999999, above every count the bounded
\* model reaches: seen = FALSE stands for that start value.
RECURSIVE leastConnectionsScan(_, _, _, _, _)
leastConnectionsScan(m, order, seen, least, leastURL) ==
    IF order = <<>> THEN leastURL
    ELSE LET k == Head(order) IN
         IF ~seen \/ m[k] < least
         THEN leastConnectionsScan(m, Tail(order), TRUE, m[k], k)
         ELSE leastConnectionsScan(m, Tail(order), seen, least, leastURL)

\* the results the least-connections branch can return: one per order of
\* the range over the map; urls[0] faults (with l held) on an empty urls
leastConnectionsPicks(mp, us, cur) ==
    IF Len(us) = 0
    THEN {[fault |-> TRUE, url |-> NoURL, cursor |-> cur, leak |-> TRUE]}
    ELSE {[fault |-> FALSE,
           url |-> leastConnectionsScan(mp.m, o, FALSE, 0, us[1]),
           cursor |-> cur, leak |-> FALSE] : o \in Orders(DOMAIN mp.m)}

\* defaultPick that advances the cursor as the round-robin branches do
defaultPickAdvances(us, cur) ==
    IF Len(us) = 0
    THEN [fault |-> TRUE, url |-> NoURL, cursor |-> cur, leak |-> FALSE]
    ELSE [fault |-> FALSE, url |-> us[1], cursor |-> AddInt64(cur),
          leak |-> FALSE]

\* the last statement, return e.urls[0], reached under no strategy
defaultPick(us, cur) ==
    IF Len(us) = 0
    THEN [fault |-> TRUE, url |-> NoURL, cursor |-> cur, leak |-> FALSE]
    ELSE [fault |-> FALSE, url |-> us[1], cursor |-> cur, leak |-> FALSE]

\* what getURL can return in the current state: the backend, the cursor it
\* leaves, whether it faulted and whether it faulted holding l
getURLResults ==
    IF LoadBalancingStrategy = RoundRobin
    THEN {roundRobinPick(urls, currentIndex)}
    ELSE IF LoadBalancingStrategy = WeightedRoundRobin
    THEN {roundRobinPick(weightedURLs, currentIndex)}
    ELSE IF LoadBalancingStrategy = LeastConnections
    THEN leastConnectionsPicks(leastConnectionMap, urls, currentIndex)
    ELSE {defaultPick(urls, currentIndex)}

\* getURL as run by request r; the least-connections branch takes the
\* mutex l for its scan
\* (next: where the caller goes on; limit: the bound on such calls)
getURL(r, next, limit) ==
    /\ ~crashed
    /\ pc[r] \in {"idle", "done", "panicked"}
    /\ nDispatch < limit
    /\ LoadBalancingStrategy = LeastConnections => ~locked
    /\ nDispatch' = nDispatch + 1
    /\ op' = [op EXCEPT ![r] = IF next = "idle" THEN "getURL" ELSE "Initiate"]
    /\ remoteAddr' = [remoteAddr EXCEPT ![r] = ""]
    /\ status' = [status EXCEPT ![r] = 0]
    /\ director' = [director EXCEPT ![r] = NoURL]
    /\ forwardedTo' = [forwardedTo EXCEPT ![r] = NoURL]
    /\ outcome' = [outcome EXCEPT ![r] = "none"]
    /\ net' = [net EXCEPT ![r] = <<>>]
    /\ proxy' = IF proxy = r THEN 0 ELSE proxy
    /\ \E res \in getURLResults :
        /\ currentIndex' = res.cursor
        /\ locked' = (locked \/ res.leak)
        /\ pc' = [pc EXCEPT ![r] = IF res.fault THEN "panicked" ELSE next]
        /\ routeURL' = [routeURL EXCEPT ![r] = res.url]
        /\ selLog' = IF res.fault THEN selLog ELSE Append(selLog, res.url)
    /\ UNCHANGED <<peer, stepVars>>
    /\ UNCHANGED <<cfgVars, limiter, tokens, urls, weightedURLs,
                   leastConnectionMap, setupStatus, nSetups, crashed>>

(***************************************************************************)
(* getURL step by step, for concurrent callers of its round-robin          *)
(* branches: the atomic add with the modulo, then the slice access and     *)
(* the return.                                                             *)
(***************************************************************************)
\* the slice the branch of the current strategy indexes
roundRobinList ==
    IF LoadBalancingStrategy = WeightedRoundRobin THEN weightedURLs ELSE urls

\* getURLAdd as a load and a store that are not one atomic operation: the
\* store of a call that overlaps another one is lost, and the call observes
\* the value the other one did
getURLAddLostUpdate(r) ==
    /\ ~crashed
    /\ pc[r] = "idle"
    /\ nDispatch < MaxSelect
    /\ LoadBalancingStrategy \in {RoundRobin, WeightedRoundRobin}
    /\ nDispatch' = nDispatch + 1
    /\ op' = [op EXCEPT ![r] = "getURL"]
    /\ routeURL' = [routeURL EXCEPT ![r] = NoURL]
    /\ currentIndex' =
           IF \E q \in Requests \ {r} : pc[q] = "getURL.return"
           THEN currentIndex ELSE AddInt64(currentIndex)
    /\ drawLog' = Append(drawLog, <<r, currentIndex'>>)
    /\ IF Len(roundRobinList) = 0
       THEN /\ pc' = [pc EXCEPT ![r] = "panicked"]
            /\ UNCHANGED nextURLIndex
       ELSE /\ pc' = [pc EXCEPT ![r] = "getURL.return"]
            /\ nextURLIndex' =
                   [nextURLIndex EXCEPT
                       ![r] = GoRem(currentIndex', Len(roundRobinList))]
    /\ UNCHANGED <<cfgVars, limiter, tokens, proxy, urls, weightedURLs,
                   leastConnectionMap, locked, remoteAddr, status, director,
                   forwardedTo, outcome, net, setupStatus, nSetups, selLog,
                   crashed, peer>>

\* atomic.AddInt64(&e.currentIndex, 1) % int64(len(list)), kept in the local
\* nextURLIndex; the modulo faults on an empty list
getURLAdd(r) ==
    /\ ~crashed
    /\ pc[r] = "idle"
    /\ nDispatch < MaxSelect
    /\ LoadBalancingStrategy \in {RoundRobin, WeightedRoundRobin}
    /\ nDispatch' = nDispatch + 1
    /\ op' = [op EXCEPT ![r] = "getURL"]
    /\ routeURL' = [routeURL EXCEPT ![r] = NoURL]
    /\ currentIndex' = AddInt64(currentIndex)
    /\ drawLog' = Append(drawLog, <<r, currentIndex'>>)
    /\ IF Len(roundRobinList) = 0
       THEN /\ pc' = [pc EXCEPT ![r] = "panicked"]
            /\ UNCHANGED nextURLIndex
       ELSE /\ pc' = [pc EXCEPT ![r] = "getURL.return"]
            /\ nextURLIndex' =
                   [nextURLIndex EXCEPT
                       ![r] = GoRem(currentIndex', Len(roundRobinList))]
    /\ UNCHANGED <<cfgVars, limiter, tokens, proxy, urls, weightedURLs,
                   leastConnectionMap, locked, remoteAddr, status, director,
                   forwardedTo, outcome, net, setupStatus, nSetups, selLog,
                   crashed, peer>>

\* return list[nextURLIndex]; the slice access faults on a negative index
getURLReturn(r) ==
    /\ ~crashed
    /\ pc[r] = "getURL.return"
    /\ IF nextURLIndex[r] < 0 \/ nextURLIndex[r] >= Len(roundRobinList)
       THEN /\ pc' = [pc EXCEPT ![r] = "panicked"]
            /\ UNCHANGED <<routeURL, selLog>>
       ELSE /\ pc' = [pc EXCEPT ![r] = "idle"]
            /\ routeURL' =
                   [routeURL EXCEPT
                       ![r] = roundRobinList[nextURLIndex[r] + 1]]
            /\ selLog' = Append(selLog, roundRobinList[nextURLIndex[r] + 1])
    /\ UNCHANGED <<cfgVars, engVars, op, remoteAddr, status, director,
                   forwardedTo, outcome, net, setupStatus, nSetups, nDispatch,
                   crashed, peer, stepVars>>

(***************************************************************************)
(* The rate limiter                                                        *)
(***************************************************************************)
\* limiterTake whose unlimited limiter waits for a slot as the limited one
\* does
limiterTakeAlwaysWaits(r, next) ==
    \/ /\ limiter = "nil"
       /\ pc' = [pc EXCEPT ![r] = "panicked"]
       /\ UNCHANGED tokens
    \/ /\ limiter \in {"unlimited", "limited"}
       /\ tokens > 0
       /\ tokens' = tokens - 1
       /\ pc' = [pc EXCEPT ![r] = next]

\* e.limiter.Take(): returns at once on an unlimited limiter, waits for the
\* next slot on a limited one, faults on the nil limiter of an Engine whose
\* Setup was never called
limiterTake(r, next) ==
    \/ /\ limiter = "nil"
       /\ pc' = [pc EXCEPT ![r] = "panicked"]
       /\ UNCHANGED tokens
    \/ /\ limiter = "unlimited"
       /\ pc' = [pc EXCEPT ![r] = next]
       /\ UNCHANGED tokens
    \/ /\ limiter = "limited"
       /\ tokens > 0
       /\ tokens' = tokens - 1
       /\ pc' = [pc EXCEPT ![r] = next]

\* time passes: the limited limiter opens its next slot
Tick ==
    /\ ~crashed
    /\ limiter = "limited"
    /\ tokens = 0
    /\ tokens' = 1
    /\ UNCHANGED <<peer, stepVars>>
    /\ UNCHANGED <<cfgVars, limiter, proxy, currentIndex, urls, weightedURLs,
                   leastConnectionMap, locked, reqVars, histVars>>

Take(r) ==
    /\ ~crashed
    /\ pc[r] = "Take"
    /\ limiterTake(r, "Increment")
    /\ UNCHANGED <<peer, stepVars>>
    /\ UNCHANGED <<cfgVars, limiter, proxy, currentIndex, urls, weightedURLs,
                   leastConnectionMap, locked, op, routeURL, remoteAddr,
                   status, director, forwardedTo, outcome, net, histVars>>

(***************************************************************************)
(* The connection counters                                                 *)
(***************************************************************************)
\* Increment without the mutex: of two increments of the same counter that
\* overlap, one is lost
IncrementLostUpdate(r) ==
    /\ ~crashed
    /\ pc[r] = "Increment"
    /\ ~locked
    /\ IF leastConnectionMap.isNil
       THEN /\ locked' = TRUE
            /\ pc' = [pc EXCEPT ![r] = "panicked"]
            /\ UNCHANGED <<leastConnectionMap, net>>
       ELSE /\ leastConnectionMap' =
                  IF \E q \in Requests \ {r} :
                         pc[q] = "Increment" /\ routeURL[q] = routeURL[r]
                  THEN leastConnectionMap
                  ELSE MapSet(leastConnectionMap, routeURL[r],
                              MapGet(leastConnectionMap, routeURL[r]) + 1)
            /\ net' = [net EXCEPT ![r] =
                          Bump(@, routeURL[r],
                               MapGet(leastConnectionMap', routeURL[r])
                                 - MapGet(leastConnectionMap, routeURL[r]))]
            /\ pc' = [pc EXCEPT ![r] = "blacklist"]
            /\ UNCHANGED locked
    /\ UNCHANGED <<peer, stepVars>>
    /\ UNCHANGED <<cfgVars, limiter, tokens, proxy, currentIndex, urls,
                   weightedURLs, op, routeURL, remoteAddr, status, director,
                   forwardedTo, outcome, histVars>>

\* l.Lock(); e.leastConnectionMap[routeURL]++; l.Unlock()
\* the assignment to an entry of a nil map faults, with l held
Increment(r) ==
    /\ ~crashed
    /\ pc[r] = "Increment"
    /\ ~locked
    /\ IF leastConnectionMap.isNil
       THEN /\ locked' = TRUE
            /\ pc' = [pc EXCEPT ![r] = "panicked"]
            /\ UNCHANGED <<leastConnectionMap, net>>
       ELSE /\ leastConnectionMap' =
                  MapSet(leastConnectionMap, routeURL[r],
                         MapGet(leastConnectionMap, routeURL[r]) + 1)
            /\ net' = [net EXCEPT ![r] =
                          Bump(@, routeURL[r],
                               MapGet(leastConnectionMap', routeURL[r])
                                 - MapGet(leastConnectionMap, routeURL[r]))]
            /\ pc' = [pc EXCEPT ![r] = "blacklist"]
            /\ UNCHANGED locked
    /\ UNCHANGED <<peer, stepVars>>
    /\ UNCHANGED <<cfgVars, limiter, tokens, proxy, currentIndex, urls,
                   weightedURLs, op, routeURL, remoteAddr, status, director,
                   forwardedTo, outcome, histVars>>

\* Decrement that gives the count back only after a forward that succeeded
DecrementOnSuccess(r) ==
    /\ ~crashed
    /\ pc[r] = "Decrement"
    /\ ~locked
    /\ leastConnectionMap' =
           IF outcome[r] = "ok"
           THEN MapSet(leastConnectionMap, routeURL[r],
                       MapGet(leastConnectionMap, routeURL[r]) - 1)
           ELSE leastConnectionMap
    /\ net' = [net EXCEPT ![r] =
                  Bump(@, routeURL[r],
                       MapGet(leastConnectionMap', routeURL[r])
                         - MapGet(leastConnectionMap, routeURL[r]))]
    /\ pc' = [pc EXCEPT ![r] = "done"]
    /\ UNCHANGED <<peer, stepVars>>
    /\ UNCHANGED <<cfgVars, limiter, tokens, proxy, currentIndex, urls,
                   weightedURLs, locked, op, routeURL, remoteAddr, status,
                   director, forwardedTo, outcome, histVars>>

\* l.Lock(); e.leastConnectionMap[routeURL]--; l.Unlock()
Decrement(r) ==
    /\ ~crashed
    /\ pc[r] = "Decrement"
    /\ ~locked
    /\ leastConnectionMap' =
           MapSet(leastConnectionMap, routeURL[r],
                  MapGet(leastConnectionMap, routeURL[r]) - 1)
    /\ net' = [net EXCEPT ![r] =
                  Bump(@, routeURL[r],
                       MapGet(leastConnectionMap', routeURL[r])
                         - MapGet(leastConnectionMap, routeURL[r]))]
    /\ pc' = [pc EXCEPT ![r] = "done"]
    /\ UNCHANGED <<peer, stepVars>>
    /\ UNCHANGED <<cfgVars, limiter, tokens, proxy, currentIndex, urls,
                   weightedURLs, locked, op, routeURL, remoteAddr, status,
                   director, forwardedTo, outcome, histVars>>

(***************************************************************************)
(* blacklist and the reverse proxy                                         *)
(***************************************************************************)
\* blacklistMatches comparing by prefix (strings.HasPrefix) and not by ==
blacklistMatchesPrefix(ips, addr) ==
    \E i \in 1..Len(ips) : ips[i] = addr \/ <<ips[i], addr>> \in PrefixPairs

\* whether blacklist writes the 403 header: ip == request.RemoteAddr for
\* some entry
blacklistMatches(ips, addr) == \E i \in 1..Len(ips) : ips[i] = addr

\* e.blacklist(writer, request); revProxy := NewSingleHostReverseProxy(
\* routeURL); e.proxy = revProxy.  blacklist returns nothing: the caller
\* goes on whatever it wrote.
blacklist(r, addr) ==
    /\ ~crashed
    /\ pc[r] = "blacklist"
    /\ remoteAddr' = [remoteAddr EXCEPT ![r] = addr]
    /\ status' = [status EXCEPT ![r] =
                      IF blacklistMatches(BlacklistIPs, addr)
                      THEN StatusForbidden ELSE 0]
    /\ director' = [director EXCEPT ![r] = routeURL[r]]
    /\ proxy' = r
    /\ pc' = [pc EXCEPT ![r] = "setupReverseProxy"]
    /\ UNCHANGED <<peer, stepVars>>
    /\ UNCHANGED <<cfgVars, limiter, tokens, currentIndex, urls, weightedURLs,
                   leastConnectionMap, locked, op, routeURL, forwardedTo,
                   outcome, net, histVars>>

\* e.setupReverseProxy(routeURL): sets the Director of whatever e.proxy
\* points at now (ModifyRequest is nil: defaultDirector(url))
setupReverseProxy(r) ==
    /\ ~crashed
    /\ pc[r] = "setupReverseProxy"
    /\ director' = IF proxy \in Requests
                   THEN [director EXCEPT ![proxy] = routeURL[r]]
                   ELSE director
    /\ pc' = [pc EXCEPT ![r] = "ServeHTTP"]
    /\ UNCHANGED <<peer, stepVars>>
    /\ UNCHANGED <<cfgVars, engVars, op, routeURL, remoteAddr, status,
                   forwardedTo, outcome, net, histVars>>

\* revProxy.ServeHTTP(writer, request): the forward step.  It returns after
\* relaying the response ("ok") or after its error handler answered
\* ("error"), or it faults ("fault": ReverseProxy panics with
\* http.ErrAbortHandler when the copy of the response fails).
ServeHTTP(r, res) ==
    /\ ~crashed
    /\ pc[r] = "ServeHTTP"
    /\ forwardedTo' = [forwardedTo EXCEPT ![r] = director[r]]
    /\ outcome' = [outcome EXCEPT ![r] = res]
    /\ pc' = [pc EXCEPT ![r] =
                  IF res = "fault" THEN "panicked"
                  ELSE IF op[r] = "Initiate" THEN "Decrement" ELSE "done"]
    /\ UNCHANGED <<peer, stepVars>>
    /\ UNCHANGED <<cfgVars, engVars, op, routeURL, remoteAddr, status,
                   director, net, histVars>>

\* InitiateOverride up to its limiter.Take()
InitiateOverride(r, u) ==
    /\ ~crashed
    /\ pc[r] \in {"idle", "done", "panicked"}
    /\ nDispatch < MaxDispatch
    /\ nDispatch' = nDispatch + 1
    /\ op' = [op EXCEPT ![r] = "InitiateOverride"]
    /\ routeURL' = [routeURL EXCEPT ![r] = u]
    /\ remoteAddr' = [remoteAddr EXCEPT ![r] = ""]
    /\ status' = [status EXCEPT ![r] = 0]
    /\ director' = [director EXCEPT ![r] = NoURL]
    /\ forwardedTo' = [forwardedTo EXCEPT ![r] = NoURL]
    /\ outcome' = [outcome EXCEPT ![r] = "none"]
    /\ net' = [net EXCEPT ![r] = <<>>]
    /\ proxy' = IF proxy = r THEN 0 ELSE proxy
    /\ limiterTake(r, "blacklist")
    /\ UNCHANGED <<peer, stepVars>>
    /\ UNCHANGED <<cfgVars, limiter, currentIndex, urls, weightedURLs,
                   leastConnectionMap, locked, setupStatus, nSetups, selLog,
                   crashed>>

\* getURL called on its own, often enough for the cursor to pass its
\* largest value
WrapSelect == 2 ^ Int64Bits + 2
getURLWrap(r) == getURL(r, "idle", WrapSelect)

\* Initiate's first statement, routeURL := e.getURL()
Initiate(r) == getURL(r, "Take", MaxDispatch)

\* getURL called on its own, as TestEngine_getURL calls it
getURLCall(r) == getURL(r, "idle", MaxSelect)

Outcomes == {"ok", "error", "fault"}

\* the steps of a request after its first
Steps(A) ==
    \E r \in Requests :
        \/ Take(r)
        \/ Increment(r)
        \/ \E a \in A : blacklist(r, a)
        \/ setupReverseProxy(r)
        \/ \E res \in Outcomes : ServeHTTP(r, res)
        \/ Decrement(r)

(***************************************************************************)
(* A second Engine value in the same process, set up under                 *)
(* LeastConnections with one backend and no rate limit, serving one        *)
(* request at a time through Initiate.  Its critical sections take the     *)
(* same package-level mutex l; they are modelled in two steps, l.Lock()    *)
(* and the section with its l.Unlock().                                    *)
(***************************************************************************)
\* the positions of the peer's request that are about to call l.Lock(): the
\* scan of getURL, the increment and the decrement
PeerLockSteps == {"getURL", "Increment", "Decrement"}

\* a request arrives at the peer
PeerInitiate ==
    /\ ~crashed
    /\ peer.pc = "idle"
    /\ peer' = [peer EXCEPT !.pc = "getURL"]
    /\ UNCHANGED <<cfgVars, engVars, reqVars, histVars, stepVars>>

\* l.Lock()
PeerLock ==
    /\ ~crashed
    /\ peer.pc \in PeerLockSteps
    /\ ~peer.holds
    /\ ~locked
    /\ locked' = TRUE
    /\ peer' = [peer EXCEPT !.holds = TRUE]
    /\ UNCHANGED <<cfgVars, limiter, tokens, proxy, currentIndex, urls,
                   weightedURLs, leastConnectionMap, reqVars, histVars,
                   stepVars>>

\* the critical section and its l.Unlock()
PeerUnlock ==
    /\ ~crashed
    /\ peer.holds
    /\ locked' = FALSE
    /\ peer' =
           IF peer.pc = "getURL"
           THEN [pc |-> "Increment", holds |-> FALSE, count |-> peer.count]
           ELSE IF peer.pc = "Increment"
           THEN [pc |-> "ServeHTTP", holds |-> FALSE,
                 count |-> peer.count + 1]
           ELSE [pc |-> "idle", holds |-> FALSE, count |-> peer.count - 1]
    /\ UNCHANGED <<cfgVars, limiter, tokens, proxy, currentIndex, urls,
                   weightedURLs, leastConnectionMap, reqVars, histVars,
                   stepVars>>

\* the peer's forward step returns
PeerServeHTTP ==
    /\ ~crashed
    /\ peer.pc = "ServeHTTP"
    /\ peer' = [peer EXCEPT !.pc = "Decrement"]
    /\ UNCHANGED <<cfgVars, engVars, reqVars, histVars, stepVars>>

(***************************************************************************)
(* Specifications.                                                         *)
(***************************************************************************)
\* Setup alone, called up to MaxSetups times with any configuration
InitSetup == Init /\ BlacklistIPs = <<>>
NextSetup == SetupAny
SpecSetup == InitSetup /\ [][NextSetup]_vars

\* one Setup of a fresh engine, then calls of getURL, under the strategies
\* whose selection does not read the counters
SelectConfigs ==
    {c \in Configs : c.rate = 0 /\ c.strategy # LeastConnections}
SelectCallers == {1}
NextSelect ==
    \/ FirstSetup(SelectConfigs)
    \/ \E r \in SelectCallers : getURLCall(r)
SpecSelect == InitSetup /\ [][NextSelect]_vars

\* concurrent requests on an engine whose Setup may be re-run under them.
\* RoundRobinWeights is left empty, or configured together with
\* WeightedRoundRobin as one weight of at least 1 per address.
DispatchConfigs ==
    {c \in Configs :
        /\ c.rate = 0
        /\ \/ c.weights = <<>>
           \/ /\ c.strategy = WeightedRoundRobin
              /\ Len(c.weights) = Len(c.URLs)
              /\ \A i \in 1..Len(c.weights) : c.weights[i] >= 1}
DispatchAddrs == {"192.168.1.7"}
Next ==
    \/ FirstSetup(DispatchConfigs)
    \/ SetupAgain
    \/ \E r \in Requests : Initiate(r)
    \/ Steps(DispatchAddrs)
Spec == InitSetup /\ [][Next]_vars

\* the admission gate: both entry points on a least-connections engine with
\* one backend, rate-limited or not, under every blacklist
GateConfigs ==
    {c \in Configs :
        /\ c.URLs = <<"http://a">>
        /\ c.strategy = LeastConnections
        /\ c.weights = <<>>}
NextGate ==
    \/ FirstSetup(GateConfigs)
    \/ Tick
    \/ \E r \in Requests : Initiate(r)
    \/ \E r \in Requests, u \in OverrideURLs : InitiateOverride(r, u)
    \/ Steps(RemoteAddrs)
SpecGate == Init /\ [][NextGate]_vars

\* two engines in one process: this one with one backend, under a strategy
\* that populates the counter map or one that leaves it nil, and the peer
PeerConfigs ==
    {c \in Configs :
        /\ c.URLs = <<"http://a">>
        /\ c.strategy \in {RoundRobin, LeastConnections}
        /\ c.weights = <<>>
        /\ c.rate = 0}
NextPeer ==
    \/ FirstSetup(PeerConfigs)
    \/ \E r \in Requests : Initiate(r)
    \/ Steps(DispatchAddrs)
    \/ PeerInitiate
    \/ PeerLock
    \/ PeerUnlock
    \/ PeerServeHTTP
SpecPeer == InitSetup /\ [][NextPeer]_vars

\* concurrent callers of getURL under the two round-robin strategies, on an
\* engine set up once
CursorConfigs ==
    {c \in Configs :
        /\ c.rate = 0
        /\ c.strategy \in {RoundRobin, WeightedRoundRobin}}
NextCursor ==
    \/ FirstSetup(CursorConfigs)
    \/ \E r \in Requests : getURLAdd(r)
    \/ \E r \in Requests : getURLReturn(r)
SpecCursor == InitSetup /\ [][NextCursor]_vars

\* a long run of selections by one caller under the two round-robin
\* strategies, on a valid configuration
WrapConfigs ==
    {c \in Configs :
        /\ c.rate = 0
        /\ Len(c.URLs) >= 1
        /\ \A i \in 1..Len(c.URLs) : c.URLs[i] \in WellFormed
        /\ \/ c.strategy = RoundRobin /\ c.weights = <<>>
           \/ /\ c.strategy = WeightedRoundRobin
              /\ Len(c.weights) = Len(c.URLs)
              /\ \A i \in 1..Len(c.weights) : c.weights[i] >= 1}
NextWrap ==
    \/ FirstSetup(WrapConfigs)
    \/ \E r \in SelectCallers : getURLWrap(r)
SpecWrap == InitSetup /\ [][NextWrap]_vars

\* dispatches under fair scheduling: every goroutine that can take its
\* next step eventually does, the limiter keeps opening slots and grants
\* one to every waiting request in the end, and the forward step ends
LiveConfigs ==
    {c \in Configs :
        /\ c.URLs = <<"http://a">>
        /\ c.strategy \in {RoundRobin, LeastConnections}
        /\ c.weights = <<>>}
NextLive ==
    \/ FirstSetup(LiveConfigs)
    \/ Tick
    \/ \E r \in Requests : Initiate(r)
    \/ Steps(DispatchAddrs)
Fairness ==
    /\ WF_vars(Tick)
    /\ \A r \in Requests :
        /\ SF_vars(Take(r))
        /\ WF_vars(Increment(r))
        /\ WF_vars(\E a \in DispatchAddrs : blacklist(r, a))
        /\ WF_vars(setupReverseProxy(r))
        /\ WF_vars(\E res \in Outcomes : ServeHTTP(r, res))
        /\ WF_vars(Decrement(r))
SpecLive == InitSetup /\ [][NextLive]_vars /\ Fairness

(***************************************************************************)
(* Properties.                                                             *)
(***************************************************************************)
\* the last Setup returned nil
SetupOK == setupStatus = "ok"

\* RoundRobinWeights holds one weight of at least 1 per backend
ValidWeights ==
    /\ Len(RoundRobinWeights) = Len(urls)
    /\ \A i \in 1..Len(RoundRobinWeights) : RoundRobinWeights[i] >= 1

\* C1: under RoundRobin, on a freshly set-up engine with N >= 1 backends,
\* the k-th selection since Setup returns BackendSet[(k-1) mod N]
C1_RoundRobinOrder ==
    (SetupOK /\ LoadBalancingStrategy = RoundRobin /\ Len(urls) >= 1) =>
        \A k \in 1..Len(selLog) :
            selLog[k] = urls[((k - 1) % Len(urls)) + 1]

\* two backends, and the selections have gone round more than once
C1_Witness ==
    /\ SetupOK
    /\ LoadBalancingStrategy = RoundRobin
    /\ Len(urls) = 2
    /\ Len(selLog) >= 5
    /\ selLog[1] = urls[1]
    /\ selLog[2] = urls[2]
    /\ selLog[5] = urls[1]

\* C2: under WeightedRoundRobin with one weight >= 1 per backend, in every
\* full cycle of sum(w) consecutive selections since Setup, backend i is
\* selected exactly w_i times
C2_WeightedCounts ==
    (SetupOK /\ LoadBalancingStrategy = WeightedRoundRobin
        /\ Len(urls) >= 1 /\ ValidWeights) =>
        LET S == SumSeq(RoundRobinWeights) IN
        \A c \in 0..((Len(selLog) \div S) - 1) :
            \A i \in 1..Len(urls) :
                Cardinality({k \in (c * S + 1)..(c * S + S) :
                                selLog[k] = urls[i]})
                    = RoundRobinWeights[i]

\* two backends of different weights, two full cycles selected
C2_Witness ==
    /\ SetupOK
    /\ LoadBalancingStrategy = WeightedRoundRobin
    /\ Len(urls) = 2
    /\ ValidWeights
    /\ RoundRobinWeights[1] # RoundRobinWeights[2]
    /\ Len(selLog) >= 2 * SumSeq(RoundRobinWeights)

\* a step in which getURL returned a backend
SelectionStep == Len(selLog') = Len(selLog) + 1
Selected == selLog'[Len(selLog')]

\* C3: under LeastConnections a selection never returns a backend whose
\* counter is above the smallest counter at the instant of the scan
C3_LeastConnectionsMin ==
    [][(LoadBalancingStrategy = LeastConnections /\ SelectionStep) =>
          \A j \in DOMAIN leastConnectionMap.m :
              MapGet(leastConnectionMap, Selected) <= leastConnectionMap.m[j]
      ]_vars

\* a request has just selected a backend with count 0 while another
\* backend carries a connection
C3_Witness ==
    /\ LoadBalancingStrategy = LeastConnections
    /\ \E r \in Requests :
        /\ op[r] = "Initiate"
        /\ pc[r] = "Take"
        /\ routeURL[r] \in DOMAIN leastConnectionMap.m
        /\ leastConnectionMap.m[routeURL[r]] = 0
        /\ \E q \in Requests \ {r} :
            /\ pc[q] = "ServeHTTP"
            /\ routeURL[q] \in DOMAIN leastConnectionMap.m
            /\ leastConnectionMap.m[routeURL[q]] = 1

\* C4: a request dispatched by Initiate whose forward step returned (with
\* or without an error) has changed the counter of its backend by +1
\* before the forward and by -1 after it: a net change of zero on that
\* backend and no change on any other
C4_NetZero ==
    \A r \in Requests :
        op[r] = "Initiate" =>
            /\ pc[r] \in {"blacklist", "setupReverseProxy", "ServeHTTP",
                          "Decrement"}
                   => (DOMAIN net[r] = {routeURL[r]}
                        /\ net[r][routeURL[r]] = 1)
            /\ pc[r] = "done"
                   => (outcome[r] \in {"ok", "error"}
                        /\ DOMAIN net[r] = {routeURL[r]}
                        /\ net[r][routeURL[r]] = 0)

\* a request completed after a forward that returned an error
C4_Witness ==
    \E r \in Requests :
        /\ op[r] = "Initiate"
        /\ pc[r] = "done"
        /\ outcome[r] = "error"
        /\ net[r][routeURL[r]] = 0

\* C5: a request whose remote address is blacklisted gets the 403 and is
\* not forwarded
C5_ForbiddenNotForwarded ==
    \A r \in Requests : status[r] = StatusForbidden => outcome[r] = "none"

\* the entries of BlacklistIPs
BlacklistSet == {BlacklistIPs[i] : i \in 1..Len(BlacklistIPs)}

\* C6: the 403 is written if and only if the remote address equals an entry
\* of the blacklist
C6_ExactMatch ==
    \A r \in Requests :
        remoteAddr[r] # "" =>
            (status[r] = StatusForbidden <=> remoteAddr[r] \in BlacklistSet)

\* a request from an address that extends a blacklisted one passed
\* unrefused and has completed
C6_Witness ==
    \E r \in Requests :
        /\ remoteAddr[r] = "10.0.0.50"
        /\ BlacklistIPs = <<"10.0.0.5">>
        /\ status[r] = 0
        /\ pc[r] = "done"

\* C7: after a Setup that returned the parse error the engine holds no
\* backend
C7_FailedSetupUnconfigured ==
    setupStatus = "err" => (urls = <<>> /\ weightedURLs = <<>>)

\* one weight of at least 1 per configured address
ConfiguredWeightsValid ==
    /\ Len(RoundRobinWeights) = Len(URLs)
    /\ \A i \in 1..Len(RoundRobinWeights) : RoundRobinWeights[i] >= 1

\* C8: under WeightedRoundRobin, Setup returns an error unless there is one
\* weight of at least 1 per address
C8_WeightMismatch ==
    (nSetups >= 1 /\ LoadBalancingStrategy = WeightedRoundRobin
        /\ ~ConfiguredWeightsValid) => setupStatus = "err"

\* C9: with no address, Setup returns an error under every strategy but
\* Nil, and no error under Nil
C9_NoBackends ==
    (nSetups >= 1 /\ URLs = <<>>) =>
        IF LoadBalancingStrategy = Nil
        THEN setupStatus = "ok"
        ELSE setupStatus = "err"

\* C10: under no strategy a selection returns BackendSet[0] and leaves the
\* cursor and the counters as they were
C10_NilSelection ==
    [][(LoadBalancingStrategy = Nil /\ SelectionStep) =>
          /\ Selected = urls[1]
          /\ currentIndex' = currentIndex
          /\ leastConnectionMap' = leastConnectionMap
      ]_vars

\* under no strategy, with two backends and a counter above 0, a second
\* selection since Setup has returned
C10_Witness ==
    /\ LoadBalancingStrategy = Nil
    /\ Len(urls) = 2
    /\ Len(selLog) >= 2
    /\ \E k \in DOMAIN leastConnectionMap.m : leastConnectionMap.m[k] >= 1
    /\ \E r \in Requests : pc[r] = "Take" /\ routeURL[r] = urls[1]

\* a step taken by request r while it runs InitiateOverride
OverrideStep(r) == op'[r] = "InitiateOverride" /\ pc'[r] # pc[r]

\* C11: InitiateOverride leaves the round-robin cursor and every connection
\* counter unchanged, and its forward step goes to exactly the backend the
\* caller supplied
C11_OverrideForwardsSupplied ==
    [][\A r \in Requests :
          OverrideStep(r) =>
              /\ currentIndex' = currentIndex
              /\ leastConnectionMap' = leastConnectionMap
              /\ pc[r] = "ServeHTTP" => forwardedTo'[r] = routeURL[r]
      ]_vars

\* C12: on an engine set up with NumberOfRequestsPerSecond = 0 the throttle
\* step of a dispatch is always ready to return, whatever the other
\* requests do and without any slot of the limiter being open, under both
\* entry points
C12_UnlimitedNeverBlocks ==
    (nSetups >= 1 /\ ~crashed /\ NumberOfRequestsPerSecond = 0) =>
        \A r \in Requests :
            /\ pc[r] = "Take" =>
                   ENABLED (Take(r) /\ pc'[r] = "Increment")
            /\ (pc[r] \in {"idle", "done", "panicked"}
                    /\ nDispatch < MaxDispatch) =>
                   \A u \in OverrideURLs :
                       ENABLED (InitiateOverride(r, u)
                                  /\ pc'[r] = "blacklist")

\* without a rate limit and with no slot open, both requests have passed
\* the throttle step at the same time
C12_Witness ==
    /\ NumberOfRequestsPerSecond = 0
    /\ limiter = "unlimited"
    /\ tokens = 0
    /\ \A r \in Requests : op[r] = "Initiate" /\ pc[r] = "Increment"

\* a step in which request r called getURL
GetURLStep(r) ==
    /\ pc[r] \in {"idle", "done", "panicked"}
    /\ op'[r] \in {"Initiate", "getURL"}
    /\ nDispatch' = nDispatch + 1
    /\ \A q \in Requests \ {r} : pc'[q] = pc[q] /\ op'[q] = op[q]

\* C13: on an engine whose last Setup returned nil and that holds at least
\* one backend, a selection is never kept waiting for the mutex l (held for
\* good by a request that faulted inside its critical section) and never
\* faults
C13_SelectionNeverFails ==
    [][(SetupOK /\ Len(urls) >= 1) =>
          /\ ~(LoadBalancingStrategy = LeastConnections /\ locked)
          /\ \A r \in Requests : GetURLStep(r) => pc'[r] # "panicked"
      ]_vars

\* the backends that hold the smallest count of the map
Tied ==
    {k \in DOMAIN leastConnectionMap.m :
        \A j \in DOMAIN leastConnectionMap.m :
            leastConnectionMap.m[k] <= leastConnectionMap.m[j]}

\* C14: under LeastConnections, among the backends of BackendSet that share
\* the smallest count, a selection returns the one that comes first in
\* configuration order
C14_TieBreakByOrder ==
    [][(LoadBalancingStrategy = LeastConnections /\ SelectionStep) =>
          \A i \in 1..Len(urls) :
              (urls[i] \in Tied /\ \A j \in 1..(i - 1) : urls[j] \notin Tied)
                  => Selected = urls[i]
      ]_vars

\* the number of entries of the weighted list before the block of backend i
BlockStart(i) == SumSeq(SubSeq(RoundRobinWeights, 1, i - 1))

\* C15: with one weight per backend, weightedURLs is the flattened sequence
\* of the blocks in configuration order, the block of backend i being
\* RoundRobinWeights[i] contiguous copies of it; under WeightedRoundRobin
\* the k-th selection since Setup is the entry of that sequence at
\* position (k-1) mod its length, so a backend is selected through its
\* whole block before the next backend is
C15_FlattenedBlocks ==
    (SetupOK /\ Len(urls) >= 1 /\ Len(RoundRobinWeights) = Len(urls)) =>
        LET S == SumSeq(RoundRobinWeights) IN
        /\ Len(weightedURLs) = S
        /\ \A i \in 1..Len(urls) :
               \A j \in 1..RoundRobinWeights[i] :
                   weightedURLs[BlockStart(i) + j] = urls[i]
        /\ LoadBalancingStrategy = WeightedRoundRobin =>
               \A k \in 1..Len(selLog) :
                   selLog[k] = weightedURLs[((k - 1) % S) + 1]

\* weights 2 and 1: the first backend was selected twice in a row, then
\* the second once, then the first again
C15_Witness ==
    /\ SetupOK
    /\ LoadBalancingStrategy = WeightedRoundRobin
    /\ Len(urls) = 2
    /\ RoundRobinWeights = <<2, 1>>
    /\ weightedURLs = <<urls[1], urls[1], urls[2]>>
    /\ Len(selLog) >= 4
    /\ SubSeq(selLog, 1, 4) = <<urls[1], urls[1], urls[2], urls[1]>>

\* C16: no connection counter is ever below 0
C16_CountersNonNegative ==
    \A k \in DOMAIN leastConnectionMap.m : leastConnectionMap.m[k] >= 0

\* C17: a request of Initiate whose forward step faulted has given back
\* the count it added to its backend
C17_DecrementOnFault ==
    \A r \in Requests :
        (op[r] = "Initiate" /\ pc[r] = "panicked" /\ outcome[r] = "fault") =>
            \A k \in DOMAIN net[r] : net[r][k] = 0

\* C18: a request of Initiate has no backend selected while its throttle
\* step or its blacklist check is still to come, and has not incremented a
\* counter while its blacklist check is still to come
C18_StepOrder ==
    \A r \in Requests :
        op[r] = "Initiate" =>
            /\ pc[r] \in {"Take", "blacklist"} => routeURL[r] = NoURL
            /\ pc[r] = "blacklist" => net[r] = <<>>

\* C19: the two engines never wait for each other's lock: whenever the
\* peer's request is about to take the lock it can, whatever the requests
\* of this engine have done, and whenever the peer's request is inside a
\* critical section a request of this engine that is about to increment or
\* decrement a counter can do so
C19_LockPerEngine ==
    /\ (peer.pc \in PeerLockSteps /\ ~peer.holds) => ENABLED PeerLock
    /\ peer.holds =>
           \A r \in Requests :
               /\ pc[r] = "Increment" => ENABLED Increment(r)
               /\ pc[r] = "Decrement" => ENABLED Decrement(r)

\* the cursor value the latest call of request r observed
LastDrawn(r) ==
    LET J == {j \in 1..Len(drawLog) : drawLog[j][1] = r} IN
    drawLog[CHOOSE j \in J : \A i \in J : i <= j][2]

\* the position of the list the j-th draw since Setup is handed
DrawnPosition(j) == drawLog[j][2] % Len(roundRobinList)

\* C20: under RoundRobin and WeightedRoundRobin with concurrent callers,
\* the calls since Setup observe the cursor values 0, 1, 2, ... each exactly
\* once and none skipped; each call goes on with the position of the value
\* it observed itself; so among the first k*N calls, taken in the order of
\* the values they observed, each of the N positions is handed out exactly
\* k times, and once every call has returned the backends returned are
\* those of the positions handed out
C20_AtomicCursor ==
    (SetupOK /\ LoadBalancingStrategy \in {RoundRobin, WeightedRoundRobin}
        /\ Len(roundRobinList) >= 1) =>
        LET N == Len(roundRobinList) IN
        /\ \A j \in 1..Len(drawLog) : drawLog[j][2] = j - 1
        /\ \A r \in Requests :
               pc[r] = "getURL.return" => nextURLIndex[r] = LastDrawn(r) % N
        /\ \A k \in 1..(Len(drawLog) \div N) :
               \A q \in 0..(N - 1) :
                   Cardinality({j \in 1..(k * N) : DrawnPosition(j) = q}) = k
        /\ (\A r \in Requests : pc[r] # "getURL.return") =>
               \A u \in {roundRobinList[i] : i \in 1..N} :
                   Cardinality({j \in 1..Len(selLog) : selLog[j] = u})
                     = Cardinality({j \in 1..Len(drawLog) :
                                      roundRobinList[DrawnPosition(j) + 1] = u})

\* two backends, two calls in flight at once that observed different
\* values, after a call that observed a later value than another returned
\* before it, and more than one round handed out
C20_Witness ==
    /\ SetupOK
    /\ LoadBalancingStrategy = RoundRobin
    /\ Len(urls) = 2
    /\ Len(drawLog) >= 5
    /\ Len(selLog) >= 2
    /\ selLog[1] = urls[2]
    /\ selLog[2] = urls[1]
    /\ \A r \in Requests : pc[r] = "getURL.return"
    /\ nextURLIndex[1] # nextURLIndex[2]

\* C21: under RoundRobin and WeightedRoundRobin, whatever value the cursor
\* has reached, values past its overflow included, the index of a
\* selection lies in 0..N-1 and the selection returns a backend
C21_CursorWraps ==
    [][(SetupOK /\ LoadBalancingStrategy \in {RoundRobin, WeightedRoundRobin}
          /\ Len(roundRobinList) >= 1) =>
          \A r \in Requests :
              GetURLStep(r) =>
                  /\ GoRem(currentIndex', Len(roundRobinList))
                         \in 0..(Len(roundRobinList) - 1)
                  /\ pc'[r] # "panicked"
      ]_vars

\* request r has performed its increment and not its decrement
Holding(r) ==
    /\ op[r] = "Initiate"
    /\ \/ pc[r] \in {"blacklist", "setupReverseProxy", "ServeHTTP",
                      "Decrement"}
       \/ pc[r] = "panicked" /\ outcome[r] = "fault"

\* every dispatch started so far is the one its goroutine still shows
AllDispatchesShown == nDispatch = Cardinality({r \in Requests : op[r] # "none"})

\* C22: under LeastConnections on an engine set up once, the counter of
\* each backend equals the number of requests that have incremented it and
\* not yet decremented it
C22_CounterIsInFlight ==
    (nSetups = 1 /\ SetupOK /\ LoadBalancingStrategy = LeastConnections
        /\ Len(urls) >= 1 /\ AllDispatchesShown) =>
        \A k \in DOMAIN leastConnectionMap.m :
            leastConnectionMap.m[k]
                = Cardinality({r \in Requests : Holding(r) /\ routeURL[r] = k})

\* two backends; both requests selected the same one before either
\* incremented, and both have incremented: its counter is 2
C22_Witness ==
    /\ nSetups = 1
    /\ SetupOK
    /\ LoadBalancingStrategy = LeastConnections
    /\ Len(urls) = 2
    /\ AllDispatchesShown
    /\ \A r \in Requests : Holding(r)
    /\ routeURL[1] = routeURL[2]
    /\ leastConnectionMap.m[routeURL[1]] = 2

\* the backends the engine holds
BackendSet == {urls[i] : i \in 1..Len(urls)}

\* C23: every backend a selection returns is one the engine holds, and
\* under LeastConnections the keys of the counter map are exactly the
\* backends the engine holds
C23_MapKeysAreBackends ==
    [][/\ (SetupOK /\ SelectionStep) => Selected \in BackendSet
       /\ (SetupOK /\ LoadBalancingStrategy = LeastConnections) =>
              DOMAIN leastConnectionMap.m = BackendSet
      ]_vars

\* a step of request r inside Initiate, after its selection and before its
\* forward step
BeforeForwardStep(r) ==
    /\ op[r] = "Initiate"
    /\ pc[r] \in {"Take", "Increment", "blacklist", "setupReverseProxy"}
    /\ pc'[r] # pc[r]

\* C24: on an engine whose last Setup returned nil and that holds at least
\* one backend, a request of Initiate that has its backend reaches the
\* forward step: none of its steps before it faults, under any strategy
C24_DispatchReachesForward ==
    [][(SetupOK /\ Len(urls) >= 1) =>
          \A r \in Requests : BeforeForwardStep(r) => pc'[r] # "panicked"
      ]_vars

\* request r is inside Initiate
InDispatch(r) ==
    pc[r] \in {"Take", "Increment", "blacklist", "setupReverseProxy",
               "ServeHTTP", "Decrement"}

\* C25: under fair scheduling every request that has started a dispatch
\* finishes it, by returning or by faulting: none waits for ever, for the
\* mutex l in particular
C25_EveryDispatchFinishes ==
    \A r \in Requests : InDispatch(r) ~> pc[r] \in {"done", "panicked"}

\* a call of Setup on an engine whose previous Setup returned nil, that
\* returns the parse error
FailedSetupStep ==
    /\ nSetups >= 1
    /\ SetupOK
    /\ nSetups' = nSetups + 1
    /\ setupStatus' = "err"

\* the private fields after the step are those a Setup builds from the
\* configuration it was called with
RebuiltFromConfig ==
    /\ currentIndex' = -1
    /\ limiter' = IF NumberOfRequestsPerSecond' > 0
                  THEN "limited" ELSE "unlimited"
    /\ Len(urls') = Len(URLs')
    /\ \A i \in 1..Len(urls') :
           urls'[i].addr = URLs'[i] /\ urls'[i].gen = nSetups'

\* C26: a Setup that returns an error on a configured engine either leaves
\* the cursor, the limiter, the backends, the weighted backends and the
\* counters all as they were, or has rebuilt them all from the new
\* configuration
C26_FailedSetupAllOrNothing ==
    [][FailedSetupStep =>
          \/ UNCHANGED <<currentIndex, limiter, urls, weightedURLs,
                         leastConnectionMap>>
          \/ RebuiltFromConfig
      ]_vars
====
